---- MODULE Spec2Model ----
(***************************************************************************)
(* Model of app.py: the Slack slash-command webhook that authenticates a   *)
(* request, applies the channel / project / passphrase guards and starts   *)
(* a Cloud Run Job in a background thread.                                 *)
(*                                                                         *)
(* Text that the code inspects character by character (command, text,      *)
(* token, passphrases, project ids) is a sequence of one-character         *)
(* strings.  Text that the code only compares or tests for emptiness       *)
(* (channel ids, secrets, region, namespace) is a TLA+ string.             *)
(***************************************************************************)
EXTENDS Integers, Sequences, FiniteSets

VARIABLES cfg, rid, cur, verify_err, parsed, resp, task, calls

vars == <<cfg, rid, cur, verify_err, parsed, resp, task, calls>>

(***************************************************************************)
(* Bounds of the model.                                                    *)
(***************************************************************************)
\* requests served in one behaviour
MaxRequests == 2
\* whitespace-separated tokens after the first one in a generated text
MaxRestTokens == 2

(***************************************************************************)
(* Python string primitives.                                               *)
(***************************************************************************)
\* str.isspace() characters that occur in the model
Whitespace == {" ", "\t", "\n"}

LowerAlnum ==
    {"a", "b", "c", "d", "e", "f", "g", "h", "i", "j", "k", "l", "m",
     "n", "o", "p", "q", "r", "s", "t", "u", "v", "w", "x", "y", "z",
     "0", "1", "2", "3", "4", "5", "6", "7", "8", "9"}

RECURSIVE LStrip(_)
LStrip(s) ==
    IF s # <<>> /\ Head(s) \in Whitespace THEN LStrip(Tail(s)) ELSE s

RECURSIVE RStrip(_)
RStrip(s) ==
    IF s # <<>> /\ s[Len(s)] \in Whitespace
    THEN RStrip(SubSeq(s, 1, Len(s) - 1))
    ELSE s

\* str.strip()
Strip(s) == RStrip(LStrip(s))

\* str.split() without arguments: runs of whitespace separate the tokens and
\* no token is empty.  acc is the token being read.
RECURSIVE SplitFrom(_, _)
SplitFrom(s, acc) ==
    IF s = <<>>
    THEN IF acc = <<>> THEN <<>> ELSE <<acc>>
    ELSE IF Head(s) \in Whitespace
         THEN IF acc = <<>>
              THEN SplitFrom(Tail(s), <<>>)
              ELSE <<acc>> \o SplitFrom(Tail(s), <<>>)
         ELSE SplitFrom(Tail(s), Append(acc, Head(s)))

Split(s) == SplitFrom(s, <<>>)

\* " ".join(parts)
RECURSIVE JoinSpace(_)
JoinSpace(parts) ==
    IF parts = <<>> THEN <<>>
    ELSE IF Len(parts) = 1 THEN parts[1]
    ELSE parts[1] \o <<" ">> \o JoinSpace(Tail(parts))

\* mutant: re.match, which accepts any text that starts with a match
MatchPj(s) ==
    /\ Len(s) >= 3
    /\ s[1] = "p"
    /\ s[2] = "j"
    /\ s[3] \in LowerAlnum

\* re.fullmatch(r"pj[a-z0-9]+", s) is not None
FullMatchPj(s) ==
    /\ Len(s) >= 3
    /\ s[1] = "p"
    /\ s[2] = "j"
    /\ \A k \in 3..Len(s) : s[k] \in LowerAlnum

\* mutant: the phrase is used as a pattern without re.escape, so that "."
\* matches any character
SearchUnescaped(phrase, text) ==
    \E k \in 0..(Len(text) - Len(phrase)) :
        \A n \in 1..Len(phrase) : phrase[n] = "." \/ text[k + n] = phrase[n]

\* re.search(re.escape(phrase), text) is not None: the escaped pattern
\* matches its characters literally, at any offset of the text.
SearchEscaped(phrase, text) ==
    \E k \in 0..(Len(text) - Len(phrase)) :
        \A n \in 1..Len(phrase) : text[k + n] = phrase[n]

\* form.get(name) or "": a missing field and an empty one both give "".
OrEmpty(f) == IF f.present /\ f.val # <<>> THEN f.val ELSE <<>>

\* the characters of a text as one string (the model's str of a project id)
RECURSIVE Str(_)
Str(s) == IF s = <<>> THEN "" ELSE Head(s) \o Str(Tail(s))

Abs(x) == IF x < 0 THEN -x ELSE x

(***************************************************************************)
(* Request values.                                                         *)
(*   form field   [present, val]   val a text (channel_id: a string)       *)
(*   timestamp    [kind, n, pad]   kind "empty" | "text" | "num"; a "num"  *)
(*                                 header reads as the integer n, written  *)
(*                                 with a leading zero when pad            *)
(*   signature    [kind, key, ts, body]   kind "empty" | "garbage" | "mac";*)
(*                                 a "mac" header is "v0=" + the hex       *)
(*                                 HMAC-SHA256 under key of "v0:ts:body"   *)
(* HMAC-SHA256 is taken as collision free: two "mac" strings are equal     *)
(* exactly when key, timestamp text and body are equal.                    *)
(***************************************************************************)
Absent(v) == [present |-> FALSE, val |-> v]

Present(v) == [present |-> TRUE, val |-> v]

EmptyTs == [kind |-> "empty", n |-> 0, pad |-> FALSE]

TextTs == [kind |-> "text", n |-> 0, pad |-> FALSE]

NumTs(n, pad) == [kind |-> "num", n |-> n, pad |-> pad]

NoForm ==
    [command |-> Absent(<<>>), text |-> Absent(<<>>),
     channel_id |-> Absent(""), token |-> Absent(<<>>)]

EmptySig == [kind |-> "empty", key |-> "", ts |-> EmptyTs, body |-> NoForm]

GarbageSig == [kind |-> "garbage", key |-> "", ts |-> EmptyTs, body |-> NoForm]

\* "v0=" + hmac.new(key, f"v0:{ts}:{body}", sha256).hexdigest()
MacSig(key, ts, body) == [kind |-> "mac", key |-> key, ts |-> ts, body |-> body]

\* req.get_data(as_text=True): the urlencoded body, identified with the form
\* fields it encodes
RawBody(req) == req.form

\* truth value of a header read with headers.get: None and "" are false
HeaderSet(h) == h.present /\ h.val.kind # "empty"

(***************************************************************************)
(* Helper functions of app.py.  cfg holds the module-level settings.       *)
(***************************************************************************)
SlashCommand == <<"/", "g", "a", "m", "e", "p", "r", "m">>

parse_pj_and_text(form) ==
    LET command == Strip(OrEmpty(form.command))
        text    == Strip(OrEmpty(form.text))
        parts   == Split(text)
        pj      == IF parts # <<>> THEN parts[1] ELSE <<>>
        rest    == IF Len(parts) > 1 THEN Strip(JoinSpace(Tail(parts))) ELSE <<>>
    IN  IF command # SlashCommand THEN [pj |-> <<>>, rest |-> text]
        ELSE IF text = <<>> THEN [pj |-> <<>>, rest |-> <<>>]
        ELSE IF ~FullMatchPj(pj) THEN [pj |-> <<>>, rest |-> text]
        ELSE [pj |-> pj, rest |-> rest]

\* mutant: the channel allowlist is not consulted
is_channel_allowed_any(form) == TRUE

is_channel_allowed(form) ==
    IF cfg.channel_allowlist = {} THEN TRUE
    ELSE form.channel_id.present /\ form.channel_id.val \in cfg.channel_allowlist

\* PASSPHRASE_BY_PJ.get(pj) or PASSPHRASE
PhraseOf(pj) ==
    LET own == IF pj \in DOMAIN cfg.passphrase_by_pj
               THEN cfg.passphrase_by_pj[pj] ELSE <<>>
    IN  IF own # <<>> THEN own ELSE cfg.passphrase

check_passphrase(pj, text) ==
    LET phrase == PhraseOf(pj)
    IN  IF phrase = <<>> THEN TRUE ELSE SearchEscaped(phrase, text)

\* req.form.get("token") or req.values.get("token") or "", stripped; values
\* looks in the query string before the form
TokenOf(req) ==
    Strip(IF OrEmpty(req.form.token) # <<>>
          THEN req.form.token.val
          ELSE OrEmpty(req.qtoken))

SkewLimit == 300

NoError == "ok"

\* mutant: the replay window is not checked
verify_slack_no_skew(req) ==
    LET sig == req.sig
        ts  == req.ts
    IN  IF HeaderSet(sig) /\ HeaderSet(ts) /\ cfg.signing_secret # ""
        THEN IF ts.val.kind # "num"
             THEN "ValueError: invalid literal for int()"
             ELSE IF MacSig(cfg.signing_secret, ts.val, RawBody(req)) # sig.val
             THEN "ValueError: signature mismatch"
             ELSE NoError
        ELSE IF cfg.verification_token # <<>> /\ TokenOf(req) = cfg.verification_token
             THEN NoError
             ELSE "ValueError: no valid slack auth"

\* mutant: a failed signature check falls through to the legacy token
verify_slack_fallthrough(req) ==
    LET sig == req.sig
        ts  == req.ts
    IN  IF /\ HeaderSet(sig) /\ HeaderSet(ts) /\ cfg.signing_secret # ""
           /\ ts.val.kind = "num"
           /\ Abs(req.now - ts.val.n) <= SkewLimit
           /\ MacSig(cfg.signing_secret, ts.val, RawBody(req)) = sig.val
        THEN NoError
        ELSE IF cfg.verification_token # <<>> /\ TokenOf(req) = cfg.verification_token
             THEN NoError
             ELSE "ValueError: no valid slack auth"

\* The exception verify_slack raises, or NoError when it returns.
verify_slack(req) ==
    LET sig == req.sig
        ts  == req.ts
    IN  IF HeaderSet(sig) /\ HeaderSet(ts) /\ cfg.signing_secret # ""
        THEN IF ts.val.kind # "num"
             THEN "ValueError: invalid literal for int()"
             ELSE IF Abs(req.now - ts.val.n) > SkewLimit
             THEN "ValueError: timestamp too old"
             ELSE IF MacSig(cfg.signing_secret, ts.val, RawBody(req)) # sig.val
             THEN "ValueError: signature mismatch"
             ELSE NoError
        ELSE IF cfg.verification_token # <<>> /\ TokenOf(req) = cfg.verification_token
             THEN NoError
             ELSE "ValueError: no valid slack auth"

(***************************************************************************)
(* Job name and URL of run_job.                                            *)
(* A template is a sequence of parts: literal text, or a replacement field *)
(* {name}.  str.format(pj=pj) fills {pj} and raises KeyError on any other  *)
(* field.                                                                  *)
(***************************************************************************)
Lit(s) == [kind |-> "lit", s |-> s]

Field(name) == [kind |-> "field", s |-> name]

RECURSIVE Format(_, _)
Format(template, pj) ==
    IF template = <<>> THEN [ok |-> TRUE, s |-> ""]
    ELSE LET part == Head(template)
             more == Format(Tail(template), pj)
         IN  IF part.kind = "lit"
             THEN [ok |-> more.ok, s |-> part.s \o more.s]
             ELSE IF part.s = "pj"
             THEN [ok |-> more.ok, s |-> Str(pj) \o more.s]
             ELSE [ok |-> FALSE, s |-> ""]

JobUrl(region, project, job_name) ==
    "https://" \o region \o "-run.googleapis.com/apis/run.googleapis.com/v1/"
    \o "namespaces/" \o project \o "/jobs/" \o job_name \o ":run"

\* status codes the execution platform answers with in the model
Statuses == {200, 299, 300, 500}

(***************************************************************************)
(* Responses of slack_handler: status, message (named by its role) and the *)
(* text the message quotes.                                                *)
(***************************************************************************)
Reply(status, msg, arg) == [status |-> status, msg |-> msg, arg |-> arg]

NoResponse == Reply(0, "", <<>>)

\* mutant: the exception of verify_slack is not caught and Flask answers 500
OnVerifyError_uncaught(err) == Reply(500, "internal_server_error", <<>>)

\* except Exception: ... return "署名検証エラー。...", 200
OnVerifyError(err) == Reply(200, "verify_error", <<>>)

\* mutant: the command is parsed and checked before the channel
Outcome_usage_first(req) ==
    LET err == verify_slack(req)
        p   == parse_pj_and_text(req.form)
    IN  IF err # NoError
        THEN [reply |-> OnVerifyError(err), start |-> FALSE, pj |-> <<>>]
        ELSE IF p.pj = <<>>
        THEN [reply |-> Reply(200, "usage", <<>>), start |-> FALSE, pj |-> <<>>]
        ELSE IF ~is_channel_allowed(req.form)
        THEN [reply |-> Reply(200, "channel_denied", <<>>), start |-> FALSE, pj |-> <<>>]
        ELSE IF cfg.allowlist_pjs # {} /\ p.pj \notin cfg.allowlist_pjs
        THEN [reply |-> Reply(200, "pj_denied", p.pj), start |-> FALSE, pj |-> <<>>]
        ELSE IF ~check_passphrase(p.pj, p.rest)
        THEN [reply |-> Reply(200, "passphrase_denied", PhraseOf(p.pj)),
              start |-> FALSE, pj |-> <<>>]
        ELSE [reply |-> Reply(200, "accepted", p.pj), start |-> TRUE, pj |-> p.pj]

\* The handler up to its return value: the reply, and whether the thread
\* running run_job(pj) was started on the way.
Outcome(req) ==
    LET err == verify_slack(req)
        p   == parse_pj_and_text(req.form)
    IN  IF err # NoError
        THEN [reply |-> OnVerifyError(err), start |-> FALSE, pj |-> <<>>]
        ELSE IF ~is_channel_allowed(req.form)
        THEN [reply |-> Reply(200, "channel_denied", <<>>), start |-> FALSE, pj |-> <<>>]
        ELSE IF p.pj = <<>>
        THEN [reply |-> Reply(200, "usage", <<>>), start |-> FALSE, pj |-> <<>>]
        ELSE IF cfg.allowlist_pjs # {} /\ p.pj \notin cfg.allowlist_pjs
        THEN [reply |-> Reply(200, "pj_denied", p.pj), start |-> FALSE, pj |-> <<>>]
        ELSE IF ~check_passphrase(p.pj, p.rest)
        THEN [reply |-> Reply(200, "passphrase_denied", PhraseOf(p.pj)),
              start |-> FALSE, pj |-> <<>>]
        ELSE [reply |-> Reply(200, "accepted", p.pj), start |-> TRUE, pj |-> p.pj]

(***************************************************************************)
(* State.                                                                  *)
(*   cfg         the settings read from the environment at import          *)
(*   rid         number of requests received; the latest one has this id   *)
(*   cur         the latest request (with rid = 0: the one still to handle)*)
(*   verify_err  what "SLACK VERIFY ERROR:" printed for the latest request *)
(*   parsed      pj, rest of the latest request once the handler parsed it *)
(*   resp[i]     the response sent for request i, NoResponse until sent    *)
(*   task[i]     the thread started for request i                          *)
(*   calls[i]    the URLs request i's thread has POSTed to                 *)
(***************************************************************************)
Ids == 1..MaxRequests

NoTask == [st |-> "none", pj |-> <<>>, url |-> "", status |-> 0]

NoRequest ==
    [sig |-> Absent(EmptySig), ts |-> Absent(EmptyTs), form |-> NoForm,
     qtoken |-> Absent(<<>>), now |-> 0]

NotParsed == [pj |-> <<>>, rest |-> <<>>]

InitWith(configs) ==
    /\ cfg \in configs
    /\ rid = 0
    /\ cur = NoRequest
    /\ verify_err = NoError
    /\ parsed = NotParsed
    /\ resp = [i \in Ids |-> NoResponse]
    /\ task = [i \in Ids |-> NoTask]
    /\ calls = [i \in Ids |-> <<>>]

\* slack_handler through Thread(...).start(): a denial is answered at once,
\* an accepted request has its thread started and its answer still to send.
slack_handler(req) ==
    /\ rid < MaxRequests
    /\ LET o == Outcome(req)
           i == rid + 1
       IN  /\ rid' = i
           /\ cur' = req
           /\ verify_err' = verify_slack(req)
           /\ parsed' = IF verify_slack(req) = NoError /\ is_channel_allowed(req.form)
                        THEN parse_pj_and_text(req.form)
                        ELSE NotParsed
           /\ resp' = [resp EXCEPT ![i] = IF o.start THEN NoResponse ELSE o.reply]
           /\ task' = [task EXCEPT ![i] =
                         IF o.start THEN [NoTask EXCEPT !.st = "spawned", !.pj = o.pj]
                         ELSE NoTask]
    /\ UNCHANGED <<cfg, calls>>

\* The specifications about one request draw it in the initial state, as
\* the request that has arrived and is still to be handled.
InitPending(configs, requests) ==
    /\ cfg \in configs
    /\ rid = 0
    /\ cur \in requests
    /\ verify_err = NoError
    /\ parsed = NotParsed
    /\ resp = [i \in Ids |-> NoResponse]
    /\ task = [i \in Ids |-> NoTask]
    /\ calls = [i \in Ids |-> <<>>]

slack_handler_pending == rid = 0 /\ slack_handler(cur)

\* mutant: the handler joins the thread before it answers
slack_handler_return_joined(i) ==
    /\ task[i].st \in {"done", "aborted", "key_error", "no_credentials", "transport_error"}
    /\ resp[i] = NoResponse
    /\ resp' = [resp EXCEPT ![i] = Reply(200, "accepted", task[i].pj)]
    /\ UNCHANGED <<cfg, rid, cur, verify_err, parsed, task, calls>>

\* return f"✅ `{pj}` のジョブ起動リクエストを受け付けました。...", 200
slack_handler_return(i) ==
    /\ task[i].st # "none"
    /\ resp[i] = NoResponse
    /\ resp' = [resp EXCEPT ![i] = Reply(200, "accepted", task[i].pj)]
    /\ UNCHANGED <<cfg, rid, cur, verify_err, parsed, task, calls>>

\* run_job up to the URL: the job name, then the PROJECT_ID check
run_job_prepare(i) ==
    /\ task[i].st = "spawned"
    /\ LET name == Format(cfg.job_name_template, task[i].pj)
       IN  task' = [task EXCEPT ![i] =
                      IF ~name.ok THEN [@ EXCEPT !.st = "key_error"]
                      ELSE IF cfg.project_id = "" THEN [@ EXCEPT !.st = "aborted"]
                      ELSE [@ EXCEPT !.st = "ready",
                                     !.url = JobUrl(cfg.region, cfg.project_id, name.s)]]
    /\ UNCHANGED <<cfg, rid, cur, verify_err, parsed, resp, calls>>

\* default(scopes=...) raises when no credential is found ...
run_job_no_credentials(i) ==
    /\ task[i].st = "ready"
    /\ task' = [task EXCEPT ![i].st = "no_credentials"]
    /\ UNCHANGED <<cfg, rid, cur, verify_err, parsed, resp, calls>>

\* mutant: the POST is sent a second time (a retry)
run_job_post_retry(i) ==
    /\ task[i].st = "ready"
    /\ task' = [task EXCEPT ![i].st = "posted"]
    /\ calls' = [calls EXCEPT ![i] = Append(Append(@, task[i].url), task[i].url)]
    /\ UNCHANGED <<cfg, rid, cur, verify_err, parsed, resp>>

\* ... or session.post(url, json={}) sends the request
run_job_post(i) ==
    /\ task[i].st = "ready"
    /\ task' = [task EXCEPT ![i].st = "posted"]
    /\ calls' = [calls EXCEPT ![i] = Append(@, task[i].url)]
    /\ UNCHANGED <<cfg, rid, cur, verify_err, parsed, resp>>

\* mutant: a status from 300 on replaces the answer of the request
run_job_answered_surfaced(i, status) ==
    /\ task[i].st = "posted"
    /\ task' = [task EXCEPT ![i].st = "done", ![i].status = status]
    /\ resp' = [resp EXCEPT ![i] =
                  IF status >= 300 THEN Reply(200, "dispatch_failed", task[i].pj) ELSE @]
    /\ UNCHANGED <<cfg, rid, cur, verify_err, parsed, calls>>

\* the platform answers: the status is printed, and the body from 300 on
run_job_answered(i, status) ==
    /\ task[i].st = "posted"
    /\ task' = [task EXCEPT ![i].st = "done", ![i].status = status]
    /\ UNCHANGED <<cfg, rid, cur, verify_err, parsed, resp, calls>>

\* session.post raises (transport failure): the thread dies
run_job_transport_error(i) ==
    /\ task[i].st = "posted"
    /\ task' = [task EXCEPT ![i].st = "transport_error"]
    /\ UNCHANGED <<cfg, rid, cur, verify_err, parsed, resp, calls>>

Background ==
    \E i \in Ids :
        \/ slack_handler_return(i)
        \/ run_job_prepare(i)
        \/ run_job_no_credentials(i)
        \/ run_job_post(i)
        \/ \E status \in Statuses : run_job_answered(i, status)
        \/ run_job_transport_error(i)

(***************************************************************************)
(* Settings and requests the specifications draw from.                     *)
(***************************************************************************)
Pj1 == <<"p", "j", "1">>

PjAb == <<"p", "j", "a", "b">>

Ok == <<"o", "k">>

ODot == <<"o", ".">>

Tok == <<"t", "0", "k">>

DefaultTemplate == <<Lit("job-"), Field("pj"), Lit("-slackdailyreport")>>

Templates == {DefaultTemplate, <<Lit("nightly")>>, <<Lit("job-"), Field("env")>>}

NoPhrases == [p \in {} |-> <<>>]

\* no signing secret, legacy token only, no guard configured
OpenConfig ==
    [signing_secret |-> "", verification_token |-> Tok,
     allowlist_pjs |-> {}, passphrase |-> <<>>, passphrase_by_pj |-> NoPhrases,
     channel_allowlist |-> {},
     project_id |-> "light-team", region |-> "asia-northeast1",
     job_name_template |-> DefaultTemplate]

\* both authentication methods and every guard configured
GuardedConfig ==
    [OpenConfig EXCEPT !.signing_secret = "s3cret",
                       !.allowlist_pjs = {Pj1},
                       !.passphrase = Ok,
                       !.channel_allowlist = {"C1"}]

Clock == {1700000000}

Form(command, text, channel, token) ==
    [command |-> command, text |-> text, channel_id |-> channel, token |-> token]

Request(sig, ts, form, qtoken, now) ==
    [sig |-> sig, ts |-> ts, form |-> form, qtoken |-> qtoken, now |-> now]

\* a request Slack signed with key at its own clock reading
Signed(key, form, now) ==
    Request(Present(MacSig(key, NumTs(now, FALSE), form)),
            Present(NumTs(now, FALSE)), form, Absent(<<>>), now)

\* a request without signature headers
Unsigned(form, now) ==
    Request(Absent(EmptySig), Absent(EmptyTs), form, Absent(<<>>), now)

Text2(a, b) == a \o <<" ">> \o b

(* ---- dispatch: few requests, every way run_job can end ---- *)
DispatchConfigs ==
    {[c EXCEPT !.project_id = p, !.job_name_template = t] :
        c \in {OpenConfig, GuardedConfig}, p \in {"", "light-team"}, t \in Templates}

DispatchForms ==
    {Form(Present(SlashCommand), Present(t), Present(ch), Present(tok)) :
        t \in {Text2(Pj1, Ok), Text2(PjAb, Ok), Pj1, Ok},
        ch \in {"C1", "C2"}, tok \in {Tok}}

DispatchRequests ==
    {Signed(k, f, now) : k \in {"s3cret", "wrong"}, f \in DispatchForms, now \in Clock}
    \cup {Unsigned([f EXCEPT !.token = Absent(<<>>)], now) :
            f \in DispatchForms, now \in Clock}

Init == InitWith(DispatchConfigs)

Next ==
    \/ \E req \in DispatchRequests : slack_handler(req)
    \/ Background

Spec == Init /\ [][Next]_vars

(* ---- authentication: every shape of the headers and the token ---- *)
AuthConfigs ==
    {[GuardedConfig EXCEPT !.signing_secret = k, !.verification_token = v] :
        k \in {"", "s3cret"}, v \in {<<>>, Tok}}

AuthForm == Form(Present(SlashCommand), Present(Text2(Pj1, Ok)), Present("C1"), Absent(<<>>))

\* forms that fail one guard each under GuardedConfig
DeniedForms ==
    {[AuthForm EXCEPT !.channel_id = Present("C2")],
     [AuthForm EXCEPT !.text = Present(Ok)],
     [AuthForm EXCEPT !.text = Present(Text2(PjAb, Ok))],
     [AuthForm EXCEPT !.text = Present(Pj1)]}

\* the token as the form and the query string carry it
AuthTokens ==
    {<<Absent(<<>>), q>> : q \in {Absent(<<>>), Present(Tok)}}
    \cup {<<f, Absent(<<>>)>> :
            f \in {Present(Tok), Present(<<" ">> \o Tok \o <<" ">>),
                   Present(<<"b", "a", "d">>), Present(<<>>)}}

AuthBodies ==
    {<<[AuthForm EXCEPT !.token = tq[1]], tq[2]>> : tq \in AuthTokens}
    \cup {<<f, Absent(<<>>)>> : f \in DeniedForms}

AuthTimestamps(now) ==
    {Absent(EmptyTs), Present(EmptyTs), Present(TextTs), Present(NumTs(now, TRUE))}
    \cup {Present(NumTs(n, FALSE)) :
            n \in {now - SkewLimit - 1, now - SkewLimit, now,
                   now + SkewLimit, now + SkewLimit + 1}}

\* the same instant written the other way (with or without a leading zero)
Rewritten(ts) == IF ts.kind = "num" THEN [ts EXCEPT !.pad = ~ts.pad] ELSE NumTs(0, FALSE)

\* signatures: none, empty, not a MAC, or a MAC under the right or a wrong
\* key, of this timestamp text or of the same instant written differently,
\* of this body or of another one
AuthSignatures(ts, form) ==
    {Absent(EmptySig), Present(EmptySig), Present(GarbageSig)}
    \cup {Present(MacSig(k, t, b)) :
            k \in {"s3cret", "wrong"},
            t \in {ts.val, Rewritten(ts.val)},
            b \in {form, [form EXCEPT !.text = Present(<<"x">>)]}}

AuthRequests ==
    UNION {UNION {
        {Request(sig, ts, fq[1], fq[2], now) : sig \in AuthSignatures(ts, fq[1])} :
        ts \in AuthTimestamps(now), fq \in AuthBodies} :
        now \in Clock}

InitAuth == InitPending(AuthConfigs, AuthRequests)

NextAuth ==
    \/ slack_handler_pending
    \/ Background

SpecAuth == InitAuth /\ [][NextAuth]_vars

(* ---- parsing: every command name with generated texts ---- *)
FirstTokens ==
    {Pj1, PjAb, <<"p", "j">>, <<"p", "j", "A">>, <<"p", "j", "1", "-">>,
     <<"x", "p", "j", "1">>}

RestTokens == {Ok, <<"O", "k">>}

Separators == {<<" ">>, <<" ", "\t">>}

\* up to n further tokens, each after a separator
RECURSIVE Rests(_)
Rests(n) ==
    IF n = 0 THEN {<<>>}
    ELSE {<<>>} \cup {sep \o t \o r : sep \in Separators, t \in RestTokens, r \in Rests(n - 1)}

Texts ==
    {<<>>, <<" ">>}
    \cup {pad \o f \o r \o pad :
            pad \in {<<>>, <<" ">>}, f \in FirstTokens, r \in Rests(MaxRestTokens)}

Commands ==
    {Absent(<<>>), Present(SlashCommand), Present(<<" ">> \o SlashCommand \o <<"\n">>),
     Present(<<"/", "x">>)}

ParseRequests ==
    {Unsigned(Form(c, Present(t), Present("C1"), Present(Tok)), now) :
        c \in Commands, t \in Texts, now \in Clock}
    \cup {Unsigned(Form(Present(SlashCommand), Absent(<<>>), Present("C1"), Present(Tok)), now) :
            now \in Clock}

InitParse == InitPending({OpenConfig}, ParseRequests)

NextParse ==
    \/ slack_handler_pending
    \/ Background

SpecParse == InitParse /\ [][NextParse]_vars

(* ---- guards: every combination of the guard settings ---- *)
GuardConfigs ==
    {[OpenConfig EXCEPT !.channel_allowlist = ch, !.allowlist_pjs = pjs,
                        !.passphrase = ph, !.passphrase_by_pj = by] :
        ch \in {{}, {"C1"}}, pjs \in {{}, {Pj1}}, ph \in {<<>>, Ok},
        by \in {NoPhrases, [p \in {Pj1} |-> ODot], [p \in {Pj1} |-> <<>>]}}

GuardTexts ==
    {f \o r : f \in {Pj1, PjAb, <<"p", "j">>},
              r \in {<<>>, <<" ">> \o Ok, <<" ">> \o <<"O", "k">>,
                     <<" ", "x", "o", "k", "x">>, <<" ">> \o ODot,
                     <<" ">> \o ODot \o <<" ">> \o Ok}}

GuardRequests ==
    {Unsigned(Form(Present(SlashCommand), Present(t), ch, Present(tok)), now) :
        t \in GuardTexts, ch \in {Absent(""), Present("C1"), Present("C2")},
        tok \in {Tok}, now \in Clock}
    \cup {Unsigned(Form(Present(SlashCommand), Present(Text2(Pj1, Ok)), Present("C2"),
                        Present(<<"b", "a", "d">>)), now) : now \in Clock}

InitGuards == InitPending(GuardConfigs, GuardRequests)

NextGuards ==
    \/ slack_handler_pending
    \/ Background

SpecGuards == InitGuards /\ [][NextGuards]_vars

(***************************************************************************)
(* The conditions the claims speak of, stated on a request.                *)
(***************************************************************************)
SignatureApplies(req) ==
    HeaderSet(req.sig) /\ HeaderSet(req.ts) /\ cfg.signing_secret # ""

WithinSkew(req) ==
    /\ req.ts.val.kind = "num"
    /\ req.now - req.ts.val.n <= SkewLimit
    /\ req.ts.val.n - req.now <= SkewLimit

SignatureGood(req) ==
    /\ WithinSkew(req)
    /\ req.sig.val = MacSig(cfg.signing_secret, req.ts.val, RawBody(req))

TokenGood(req) ==
    cfg.verification_token # <<>> /\ TokenOf(req) = cfg.verification_token

Authenticated(req) ==
    IF SignatureApplies(req) THEN SignatureGood(req) ELSE TokenGood(req)

ChannelListed(req) ==
    \/ cfg.channel_allowlist = {}
    \/ req.form.channel_id.present /\ req.form.channel_id.val \in cfg.channel_allowlist

ProjectShaped(req) == FullMatchPj(parse_pj_and_text(req.form).pj)

ProjectListed(req) ==
    cfg.allowlist_pjs = {} \/ parse_pj_and_text(req.form).pj \in cfg.allowlist_pjs

PhraseGiven(req) ==
    LET p == parse_pj_and_text(req.form) IN check_passphrase(p.pj, p.rest)

Finished == {"done", "aborted", "key_error", "no_credentials", "transport_error"}

\* the template with every {pj} replaced, read part by part
RECURSIVE Filled(_, _, _)
Filled(template, pj, n) ==
    IF n = 0 THEN ""
    ELSE Filled(template, pj, n - 1)
         \o (IF template[n].kind = "lit" THEN template[n].s ELSE Str(pj))

ExpectedUrl(pj) ==
    "https://" \o cfg.region \o "-run.googleapis.com/apis/run.googleapis.com/v1/namespaces/"
    \o cfg.project_id \o "/jobs/"
    \o Filled(cfg.job_name_template, pj, Len(cfg.job_name_template)) \o ":run"

(***************************************************************************)
(* Claims checked under Spec.                                              *)
(***************************************************************************)

\* C2: a background task comes to exist only in the handler step of a
\* request that passed authentication, whose channel is listed (or no channel
\* list is set), whose parsed project id matches pj[a-z0-9]+ and is listed (or
\* no project list is set) and whose remainder passed the passphrase guard;
\* trigger calls are issued only by such a task.
C2_TriggerOnlyWhenAuthorized ==
    /\ [][\A i \in Ids :
            task[i].st = "none" /\ task'[i].st # "none"
            => /\ i = rid'
               /\ Authenticated(cur')
               /\ ChannelListed(cur')
               /\ ProjectShaped(cur')
               /\ ProjectListed(cur')
               /\ PhraseGiven(cur')]_vars
    /\ [](\A i \in Ids : calls[i] # <<>> => task[i].st # "none")
    /\ [](rid > 0 /\ task[rid].st # "none"
            => /\ Authenticated(cur)
               /\ ChannelListed(cur)
               /\ ProjectShaped(cur)
               /\ ProjectListed(cur)
               /\ PhraseGiven(cur))

\* C2 witness: under a configuration with both lists set, a signed request
\* from a listed channel for a listed project has its trigger call issued.
C2_Witness ==
    /\ rid > 0
    /\ cfg.channel_allowlist # {}
    /\ cfg.allowlist_pjs # {}
    /\ SignatureApplies(cur)
    /\ calls[rid] # <<>>

\* C3 as stated: once the background task of an accepted request is over,
\* exactly one trigger call has been issued for it, to the expected URL.
C3_ExactlyOneCall ==
    \A i \in Ids :
        resp[i].msg = "accepted" /\ task[i].st \in Finished
        => calls[i] = <<ExpectedUrl(task[i].pj)>>

\* C3 amended: at most one trigger call is ever issued per accepted request;
\* it is issued exactly when the task reaches its POST, to the job-run URL
\* built from region, namespace and the template with {pj} replaced; a task
\* that stops before (empty PROJECT_ID, template that does not format, no
\* credential) has issued none.
C3_AtMostOneCall ==
    \A i \in Ids :
        /\ Len(calls[i]) <= 1
        /\ task[i].st \in {"posted", "done", "transport_error"}
           => calls[i] = <<ExpectedUrl(task[i].pj)>>
        /\ task[i].st \in {"none", "spawned", "ready", "aborted", "key_error",
                          "no_credentials"}
           => calls[i] = <<>>

\* C3 witness: the accepted request for pj1 under the default template has
\* one call, to the job job-pj1-slackdailyreport.
C3_Witness ==
    \E i \in Ids :
        /\ resp[i].msg = "accepted"
        /\ task[i].st = "done"
        /\ calls[i] = <<"https://asia-northeast1-run.googleapis.com/apis/run.googleapis.com/v1/namespaces/light-team/jobs/job-pj1-slackdailyreport:run">>

\* C7: the acceptance response does not wait for nor depend on the trigger
\* call: while the answer is still to send, sending it is possible in every
\* state of the task; what is sent is the acceptance text with status 200
\* whatever the task did; and a response once sent never changes.
C7_FireAndForget ==
    /\ [](\A i \in Ids :
            task[i].st # "none" /\ resp[i] = NoResponse
            => ENABLED slack_handler_return(i))
    /\ [](\A i \in Ids :
            task[i].st # "none" /\ resp[i] # NoResponse
            => resp[i] = Reply(200, "accepted", task[i].pj))
    /\ [][\A i \in Ids : resp[i] # NoResponse => resp'[i] = resp[i]]_vars

\* C7 witness: one request answered while its task has not started, and
\* another whose trigger call already failed in transport while its answer
\* is still to send.
C7_Witness ==
    /\ \E i \in Ids : resp[i].msg = "accepted" /\ task[i].st = "spawned"
    /\ \E i \in Ids : resp[i] = NoResponse /\ task[i].st = "transport_error"

Replies ==
    {"verify_error", "channel_denied", "usage", "pj_denied", "passphrase_denied",
     "accepted"}

\* C1: every request is answered with status 200 and one of the handler's
\* texts: a request that fails authentication (bad or missing signature,
\* stale or non-numeric timestamp, token mismatch) gets the verification
\* text with 200, every denial and the acceptance carry 200, and a request
\* whose answer is still to send can always be sent it.
C1_AlwaysAnswers200 ==
    /\ \A i \in Ids :
        /\ i <= rid /\ resp[i] # NoResponse
           => resp[i].status = 200 /\ resp[i].msg \in Replies
        /\ i <= rid /\ resp[i] = NoResponse => ENABLED slack_handler_return(i)
    /\ rid > 0 /\ ~Authenticated(cur) => resp[rid] = Reply(200, "verify_error", <<>>)
    /\ rid > 0 /\ verify_err # NoError => resp[rid] = Reply(200, "verify_error", <<>>)

\* C1 witness: a request whose timestamp header is not a number, so that
\* int(ts) raises inside verify_slack, is answered 200.
C1_Witness ==
    /\ rid > 0
    /\ SignatureApplies(cur)
    /\ cur.ts.val.kind = "text"
    /\ verify_err = "ValueError: invalid literal for int()"
    /\ resp[rid].status = 200

\* whether verify_slack returned for the latest request
AuthPassed == verify_err = NoError

\* the token as submitted: the form field, else the one of the query string
SubmittedToken ==
    IF cur.form.token.present /\ cur.form.token.val # <<>>
    THEN cur.form.token.val
    ELSE cur.qtoken.val

\* C4 as stated: with both headers present and a secret configured the
\* signature method alone decides (a wrong signature is rejected whatever
\* the token); otherwise the legacy method decides and accepts only a
\* submitted token that is exactly the configured one.
C4_HeadersPresentDecide ==
    rid > 0 =>
        IF cur.sig.present /\ cur.ts.present /\ cfg.signing_secret # ""
        THEN AuthPassed <=> (HeaderSet(cur.sig) /\ HeaderSet(cur.ts) /\ SignatureGood(cur))
        ELSE AuthPassed =>
                /\ cfg.verification_token # <<>>
                /\ SubmittedToken = cfg.verification_token

\* C4 amended: with both headers present and non-empty and a secret
\* configured the signature method alone decides, whatever the token;
\* otherwise (a header missing or empty, or no secret) the legacy method
\* alone decides and accepts exactly when a token is configured and the
\* submitted token (form field, else query string), trimmed of surrounding
\* whitespace, equals it.
C4_OneMethodDecides ==
    rid > 0 =>
        IF HeaderSet(cur.sig) /\ HeaderSet(cur.ts) /\ cfg.signing_secret # ""
        THEN /\ AuthPassed <=> SignatureGood(cur)
             /\ verify_err # "ValueError: no valid slack auth"
        ELSE /\ AuthPassed <=>
                    /\ cfg.verification_token # <<>>
                    /\ Strip(SubmittedToken) = cfg.verification_token
             /\ ~AuthPassed => verify_err = "ValueError: no valid slack auth"

\* C4 witness: a request signed with a wrong key whose form token is the
\* configured legacy token is rejected.
C4_Witness ==
    /\ rid > 0
    /\ HeaderSet(cur.sig) /\ HeaderSet(cur.ts) /\ cfg.signing_secret # ""
    /\ cur.sig.val.kind = "mac" /\ cur.sig.val.key = "wrong"
    /\ cfg.verification_token # <<>>
    /\ cur.form.token = Present(cfg.verification_token)
    /\ resp[rid].msg = "verify_error"

\* C5: when the signature method applies, verify_slack returns exactly when
\* the timestamp is a number at most 300 seconds from the clock and the
\* signature is "v0=" + the MAC under the secret of "v0:{timestamp}:{body}";
\* a timestamp more than 300 seconds off raises the skew error whatever the
\* signature is.
C5_SignatureRule ==
    rid > 0 /\ SignatureApplies(cur) =>
        /\ AuthPassed <=>
              /\ cur.ts.val.kind = "num"
              /\ cur.ts.val.n \in (cur.now - 300)..(cur.now + 300)
              /\ cur.sig.val.kind = "mac"
              /\ cur.sig.val.key = cfg.signing_secret
              /\ cur.sig.val.ts = cur.ts.val
              /\ cur.sig.val.body = cur.form
        /\ cur.ts.val.kind = "num" /\ cur.ts.val.n \notin (cur.now - 300)..(cur.now + 300)
           => verify_err = "ValueError: timestamp too old"
        /\ (~AuthPassed) <=> resp[rid].msg = "verify_error"

\* C5 witness: a correctly signed request whose timestamp is 301 seconds old
\* is rejected by the skew check.
C5_Witness ==
    /\ rid > 0
    /\ SignatureApplies(cur)
    /\ cur.ts.val = NumTs(cur.now - 301, FALSE)
    /\ cur.sig.val = MacSig(cfg.signing_secret, cur.ts.val, cur.form)
    /\ verify_err = "ValueError: timestamp too old"

(***************************************************************************)
(* Claims checked under SpecGuards.                                        *)
(***************************************************************************)
\* the answer of the latest request: what was sent, or the acceptance that
\* is still to send
Answer ==
    IF resp[rid] = NoResponse /\ task[rid].st # "none"
    THEN Reply(200, "accepted", task[rid].pj)
    ELSE resp[rid]

\* C6: for an authenticated request the guards are tried in the order
\* channel, project presence/shape, project membership, passphrase, and the
\* response is the denial of the first guard that fails (the acceptance when
\* none fails).
C6_FirstFailingGuardAnswers ==
    rid > 0 /\ AuthPassed =>
        Answer.msg =
            IF ~ChannelListed(cur) THEN "channel_denied"
            ELSE IF ~ProjectShaped(cur) THEN "usage"
            ELSE IF ~ProjectListed(cur) THEN "pj_denied"
            ELSE IF ~PhraseGiven(cur) THEN "passphrase_denied"
            ELSE "accepted"

\* C6 witness: a request from a channel that is not listed whose text does
\* not parse gets the channel denial.
C6_Witness ==
    /\ rid > 0 /\ AuthPassed
    /\ ~ChannelListed(cur)
    /\ ~ProjectShaped(cur)
    /\ resp[rid].msg = "channel_denied"

\* text contains phrase as a run of consecutive, equal characters
Contains(text, phrase) ==
    \E k \in 1..(Len(text) - Len(phrase) + 1) :
        SubSeq(text, k, k + Len(phrase) - 1) = phrase

\* the phrase the claim calls effective: the project's own phrase when the
\* mapping gives it a non-empty one, else the global phrase (empty: none)
EffectivePhrase(pj) ==
    IF pj \in DOMAIN cfg.passphrase_by_pj /\ cfg.passphrase_by_pj[pj] # <<>>
    THEN cfg.passphrase_by_pj[pj]
    ELSE cfg.passphrase

\* C9: for a request that reaches the passphrase guard, the guard passes
\* exactly when there is no effective phrase or the remainder contains the
\* effective phrase literally and case-sensitively; the effective phrase is
\* the project's override if it has one, else the global phrase; a denial
\* quotes the effective phrase.
C9_PassphraseRule ==
    rid > 0 /\ AuthPassed /\ ChannelListed(cur) /\ parsed.pj # <<>> /\ ProjectListed(cur) =>
        LET phrase == EffectivePhrase(parsed.pj)
        IN  /\ Answer.msg \in {"accepted", "passphrase_denied"}
            /\ Answer.msg = "accepted" <=> (phrase = <<>> \/ Contains(parsed.rest, phrase))
            /\ Answer.msg = "passphrase_denied" => Answer.arg = phrase

\* C9 witness: pj1 has the override "o." and the global phrase is "ok"; a
\* remainder with "o." and without "ok" passes.
C9_Witness ==
    /\ rid > 0 /\ AuthPassed
    /\ cfg.passphrase = Ok
    /\ parsed.pj = Pj1
    /\ Pj1 \in DOMAIN cfg.passphrase_by_pj /\ cfg.passphrase_by_pj[Pj1] = ODot
    /\ parsed.rest = ODot
    /\ task[rid].st # "none"

(***************************************************************************)
(* Claims checked under SpecParse.                                         *)
(***************************************************************************)
\* the latest request reached line 152 of the handler
Parsed == rid > 0 /\ AuthPassed /\ ChannelListed(cur)

TextField == IF cur.form.text.present THEN cur.form.text.val ELSE <<>>

ExpectedCommand ==
    cur.form.command.present /\ Strip(cur.form.command.val) = SlashCommand

\* C10 as stated: the project id is empty or matches pj[a-z0-9]+; under the
\* expected command a matching first token is the project id and the other
\* tokens joined by single spaces the remainder; a first token that does not
\* match gives an empty project id and the whole original text field as
\* remainder; an empty text gives two empty results.
C10_RemainderIsOriginalText ==
    Parsed =>
        /\ parsed.pj = <<>> \/ FullMatchPj(parsed.pj)
        /\ ExpectedCommand =>
            LET tokens == Split(TextField)
            IN  IF tokens = <<>> THEN parsed = [pj |-> <<>>, rest |-> <<>>]
                ELSE IF FullMatchPj(tokens[1])
                THEN parsed = [pj |-> tokens[1], rest |-> JoinSpace(Tail(tokens))]
                ELSE parsed = [pj |-> <<>>, rest |-> TextField]

\* C10 amended: as stated, except that a first token that does not match
\* gives as remainder the text field with the whitespace at its two ends
\* removed (whitespace inside it is kept).
C10_RemainderIsStrippedText ==
    Parsed =>
        /\ parsed.pj = <<>> \/
            /\ Len(parsed.pj) >= 3
            /\ SubSeq(parsed.pj, 1, 2) = <<"p", "j">>
            /\ \A k \in 3..Len(parsed.pj) : parsed.pj[k] \in LowerAlnum
        /\ ExpectedCommand =>
            LET tokens == Split(TextField)
            IN  IF tokens = <<>> THEN parsed = [pj |-> <<>>, rest |-> <<>>]
                ELSE IF /\ Len(tokens[1]) >= 3
                        /\ SubSeq(tokens[1], 1, 2) = <<"p", "j">>
                        /\ \A k \in 3..Len(tokens[1]) : tokens[1][k] \in LowerAlnum
                THEN parsed = [pj |-> tokens[1], rest |-> JoinSpace(Tail(tokens))]
                ELSE parsed = [pj |-> <<>>, rest |-> Strip(TextField)]

\* C10 witness: a text with spaces at its ends, a first token that does not
\* match and a run of two whitespace characters inside: the remainder keeps
\* the run and loses the ends.
C10_Witness ==
    /\ Parsed /\ ExpectedCommand
    /\ TextField = <<" ", "p", "j", "A", " ", "\t", "O", "k", " ">>
    /\ parsed = [pj |-> <<>>, rest |-> <<"p", "j", "A", " ", "\t", "O", "k">>]

====
